---- MODULE Spec2Model ----
(***************************************************************************)
(* ColmapJob (runner.py): a background job that runs the four COLMAP       *)
(* stages on a worker thread, publishes (stage, progress, status) under    *)
(* one lock, checks a cancellation flag at the stage boundaries and tells  *)
(* the consumer about the outcome through callbacks.                       *)
(*                                                                         *)
(* One step of the model is one lock-protected section, one call into a    *)
(* stage function, one return from it, or one callback invocation.  The    *)
(* worker's position is the line of runner.py it is about to execute.      *)
(*                                                                         *)
(* Two callers are modelled next to the job: run_pipeline (pipeline.py),   *)
(* the synchronous pipeline, and ColmapPanel (panels/reconstruction.py),   *)
(* which starts one job after the other from its draw method.              *)
(***************************************************************************)
EXTENDS Integers, Sequences, FiniteSets, TLC

\* ---------------------------------------------------------------- bounds
MaxStartCalls == 2      \* start() calls one consumer thread makes
MaxCancelCalls == 2     \* cancel() calls made in a run
MaxPolls == 2           \* stage/result polls the reader makes
MaxWaits == 1           \* wait() calls one consumer thread makes
MaxJobs == 2            \* jobs the panel starts

\* ---------------------------------------------------------------- values
\* ColmapStage (runner.py:16-26), by enum value
IDLE == "idle"
EXTRACTING == "extracting"
MATCHING == "matching"
RECONSTRUCTING == "reconstructing"
UNDISTORTING == "undistorting"
DONE == "done"
ERROR == "error"
CANCELLED == "cancelled"

ColmapStage ==
    {IDLE, EXTRACTING, MATCHING, RECONSTRUCTING, UNDISTORTING, DONE, ERROR, CANCELLED}

\* Python's None, for the string-valued fields
None == "None"

\* Consumer threads; a worker is named after the thread whose start() spawned it
Threads == {"ui", "bg"}

\* ColmapConfig (utils.py:11-37): the derived paths it defines.  It defines
\* database_path and sparse_path and no undistorted_path.
ColmapConfig ==
    [database_path |-> "out/database.db", sparse_path |-> "out/sparse",
     undistorted_path |-> None]

\* A configuration object that also carries an undistorted_path attribute
\* (ColmapJob takes any object as config, runner.py:39).
ExtendedConfig ==
    [database_path |-> "out/database.db", sparse_path |-> "out/sparse",
     undistorted_path |-> "out/undistorted"]

Configs == {ColmapConfig, ExtendedConfig}

\* getattr(config, "undistorted_path") raises AttributeError when absent
HasUndistortedPath(cfg) == cfg.undistorted_path # None

\* ReconstructionResult (utils.py:40-51); present = FALSE stands for None.
\* undistorted_path is the attribute runner.py:147 attaches.
NoResult ==
    [present |-> FALSE, success |-> FALSE, sparse_path |-> None,
     error |-> None, undistorted_path |-> None]

\* ReconstructionResult(success=False, error=msg)
FailedResult(msg) ==
    [present |-> TRUE, success |-> FALSE, sparse_path |-> None,
     error |-> msg, undistorted_path |-> None]

\* reconstruct()'s successful return (reconstruction.py:54-61)
ReconstructSuccess ==
    [present |-> TRUE, success |-> TRUE, sparse_path |-> "out/sparse/0",
     error |-> None, undistorted_path |-> None]

\* reconstruct()'s structural failure (reconstruction.py:39-43)
NoValidReconstructions == "No valid reconstructions found"
ReconstructFailure == FailedResult(NoValidReconstructions)

\* messages of the exceptions the stage functions and callbacks raise
ExtractError == "No images found in images"
MatchError == "Unknown match type: bogus"
ReconstructError == "incremental_mapping failed"
UndistortError == "undistort_images failed"
AttributeError == "'ColmapConfig' object has no attribute 'undistorted_path'"
ProgressCallbackError == "on_progress raised"
CompleteCallbackError == "on_complete raised"
ErrorCallbackError == "on_error raised"

StageErrors == {ExtractError, MatchError, ReconstructError, UndistortError}
CallbackErrors == {ProgressCallbackError, CompleteCallbackError, ErrorCallbackError}

\* Python's `a or b` on an optional string (runner.py:136)
StrOr(a, b) == IF a = None \/ a = "" THEN b ELSE a

\* str(Exception(x)): the text of an exception built from message x (runner.py:138)
ExceptionOf(x) == IF x = None THEN "None" ELSE x

VARIABLES
    config, on_progress, on_complete, on_error,   \* constructor arguments
    stage, progress, status, cancelled, result,   \* fields guarded by _lock
    thread,                                       \* self._thread: None or the worker
    starters, spc, startCalls, startErrors,       \* threads calling start()
    cancelCalls,
    pc, res, exc, argp, chk,                      \* each worker's position and locals
    calls, nComplete, errArgs, raised, published, \* what the run has done so far
    polls, rdStage, rdResult,                     \* a polling reader
    lock, unlocked,                               \* self._lock, and the accesses made without it
    wpc, waits, wret,                             \* threads calling wait()
    lateCancel,                                   \* cancel() was called on a terminated job
    rp_pc, rp_args, rp_calls, rp_caught,          \* a call of run_pipeline (pipeline.py)
    rp_rec, rp_ret, rp_exc,
    panel_job, image_path, last_result,           \* ColmapPanel (panels/reconstruction.py)
    pending_import, dpc, njobs, wrote,
    jpc, jstage, jprogress, jcancelled,           \* the jobs the panel has started
    jres, jexc, jresult

jobVars == <<stage, progress, status, cancelled, result>>
ctorVars == <<config, on_progress, on_complete, on_error, starters>>
startVars == <<thread, spc, startCalls, startErrors>>
workerVars == <<pc, res, exc, argp, chk>>
logVars == <<calls, nComplete, errArgs, raised, published>>
readerVars == <<polls, rdStage, rdResult>>
lockVars == <<lock, unlocked>>
waitVars == <<wpc, waits, wret>>
syncVars == <<rp_pc, rp_args, rp_calls, rp_caught, rp_rec, rp_ret, rp_exc>>
runnerVars == <<ctorVars, jobVars, startVars, cancelCalls, workerVars, logVars, readerVars,
                lockVars, waitVars, lateCancel>>
panelVars == <<panel_job, image_path, last_result, pending_import, dpc, njobs, wrote,
               jpc, jstage, jprogress, jcancelled, jres, jexc, jresult>>
vars == <<runnerVars, syncVars, panelVars>>

\* The jobs of the panel, in the order it starts them; 0 stands for no job
Jobs == 1..MaxJobs

\* run_pipeline has not been called
NoArgs == [has_images |-> FALSE, output_ok |-> FALSE, match_type |-> None, progress |-> None]
NothingCaught == [msg |-> None, in |-> None]

\* What wait() returned: nothing yet
NotWaited == [kind |-> "none", value |-> NoResult, stage |-> None, finished |-> FALSE]

StageFunctions == {"extract_features", "match_features", "reconstruct", "undistort_images"}

\* ColmapJob.__init__ (runner.py:32-50), for every choice of constructor arguments
InitJob ==
    /\ config \in Configs
    /\ on_progress \in BOOLEAN
    /\ on_complete \in BOOLEAN
    /\ on_error \in BOOLEAN
    /\ stage = IDLE
    /\ progress = 0
    /\ status = ""
    /\ cancelled = FALSE
    /\ result = NoResult
    /\ thread = None
    /\ spc = [t \in Threads |-> "out"]
    /\ startCalls = [t \in Threads |-> 0]
    /\ startErrors = [t \in Threads |-> 0]
    /\ cancelCalls = 0
    /\ pc = [w \in Threads |-> "unborn"]
    /\ res = [w \in Threads |-> NoResult]
    /\ exc = [w \in Threads |-> None]
    /\ argp = [w \in Threads |-> 0]
    /\ chk = [w \in Threads |-> FALSE]
    /\ calls = [f \in StageFunctions |-> 0]
    /\ nComplete = 0
    /\ errArgs = <<>>
    /\ raised = {}
    /\ published = {}
    /\ polls = 0
    /\ rdStage = None
    /\ rdResult = None
    /\ lock = None
    /\ unlocked = {}
    /\ wpc = [t \in Threads |-> "out"]
    /\ waits = [t \in Threads |-> 0]
    /\ wret = NotWaited
    /\ lateCancel = FALSE
    /\ rp_pc = "idle"
    /\ rp_args = NoArgs
    /\ rp_calls = <<>>
    /\ rp_caught = NothingCaught
    /\ rp_rec = NoResult
    /\ rp_ret = NoResult
    /\ rp_exc = None
    /\ panel_job = 0
    /\ image_path = ""
    /\ last_result = NoResult
    /\ pending_import = None
    /\ dpc = "frame"
    /\ njobs = 0
    /\ wrote = {}
    /\ jpc = [j \in Jobs |-> "unborn"]
    /\ jstage = [j \in Jobs |-> IDLE]
    /\ jprogress = [j \in Jobs |-> 0]
    /\ jcancelled = [j \in Jobs |-> FALSE]
    /\ jres = [j \in Jobs |-> NoResult]
    /\ jexc = [j \in Jobs |-> None]
    /\ jresult = [j \in Jobs |-> NoResult]

\* One consumer thread owns the job and is the only caller of start()
Init == InitJob /\ starters = {"ui"}

\* Two threads share the job and may both call start(); the job is built on a
\* configuration with all derived paths and with all three callbacks
InitRace ==
    /\ InitJob
    /\ starters = Threads
    /\ config = ExtendedConfig
    /\ on_progress /\ on_complete /\ on_error

\* A block that would keep the lock when it is left
WithLockKept(t) ==
    /\ lock = None
    /\ lock' = t

\* `with self._lock:` entered by thread t (runner.py:50, threading.Lock): the
\* lock is taken when it is free and released on leaving the block.  Every
\* block of runner.py holds field accesses only, so a block is one step.
WithLock(t) ==
    /\ lock = None
    /\ lock' = None

\* ------------------------------------------------------- start and cancel
\* start(), runner.py:85: the unsynchronised test of self._thread, passed
start_check(t) ==
    /\ t \in starters
    /\ spc[t] = "out"
    /\ startCalls[t] < MaxStartCalls
    /\ wpc[t] = "out"
    /\ thread = None
    /\ spc' = [spc EXCEPT ![t] = "checked"]
    /\ startCalls' = [startCalls EXCEPT ![t] = @ + 1]
    /\ UNCHANGED <<ctorVars, syncVars, panelVars, lockVars, waitVars, lateCancel, jobVars, thread, startErrors, cancelCalls, workerVars,
                   logVars, readerVars>>

\* start(), runner.py:85-86: self._thread is set, RuntimeError("Job already started")
start_raise(t) ==
    /\ t \in starters
    /\ spc[t] = "out"
    /\ startCalls[t] < MaxStartCalls
    /\ wpc[t] = "out"
    /\ thread # None
    /\ startCalls' = [startCalls EXCEPT ![t] = @ + 1]
    /\ startErrors' = [startErrors EXCEPT ![t] = @ + 1]
    /\ UNCHANGED <<ctorVars, syncVars, panelVars, lockVars, waitVars, lateCancel, jobVars, thread, spc, cancelCalls, workerVars,
                   logVars, readerVars>>

\* start(), runner.py:87-88: the Thread is created, stored and started on _run
start_spawn(t) ==
    /\ spc[t] = "checked"
    /\ thread' = t
    /\ spc' = [spc EXCEPT ![t] = "out"]
    /\ pc' = [pc EXCEPT ![t] = "L110"]
    /\ UNCHANGED <<ctorVars, syncVars, panelVars, lockVars, waitVars, lateCancel, jobVars, startCalls, startErrors, cancelCalls,
                   res, exc, argp, chk, logVars, readerVars>>

\* A cancel() that would itself publish the Cancelled stage
cancel_publishing ==
    /\ cancelCalls < MaxCancelCalls
    /\ cancelled' = TRUE
    /\ stage' = CANCELLED
    /\ cancelCalls' = cancelCalls + 1
    /\ lock = None /\ lock' = None
    /\ lateCancel' = (lateCancel \/ stage \in {DONE, ERROR, CANCELLED})
    /\ UNCHANGED <<ctorVars, syncVars, panelVars, unlocked, waitVars, progress, status, result, startVars,
                   workerVars, logVars, readerVars>>

\* cancel(), runner.py:80-82
cancel ==
    /\ cancelCalls < MaxCancelCalls
    /\ cancelled' = TRUE
    /\ cancelCalls' = cancelCalls + 1
    /\ WithLock("caller")
    /\ lateCancel' = (lateCancel \/ stage \in {DONE, ERROR, CANCELLED})
    /\ UNCHANGED <<ctorVars, syncVars, panelVars, unlocked, waitVars, stage, progress, status, result, startVars,
                   workerVars, logVars, readerVars>>

\* ------------------------------------------------------------ the worker
\* The labels of the except block (runner.py:162-168): an exception raised
\* there leaves _run and ends the thread.
HandlerLabels == {"L163", "L163u", "L163c", "L164", "L167"}

\* The worker has left _run: by return, or by an exception nothing caught
Returned(w) == pc[w] = "finished"
Escaped(w) == pc[w] = "crashed"
Terminated(w) == Returned(w) \/ Escaped(w)

\* An exception with message msg is raised at label l of _run: inside the try
\* block it is caught at line 162 and bound to e, inside the except block it
\* propagates out of the thread.
Raise(w, msg) ==
    /\ raised' = raised \cup {msg}
    /\ IF pc[w] \in HandlerLabels
         THEN /\ pc' = [pc EXCEPT ![w] = "crashed"]
              /\ exc' = exc
         ELSE /\ pc' = [pc EXCEPT ![w] = "L163"]
              /\ exc' = [exc EXCEPT ![w] = msg]

\* The _update call sites of the try block (runner.py:110-155): the arguments
\* and the label reached once _update has returned
UpdateSite ==
    [L110 |-> [stage |-> EXTRACTING, progress |-> 0, status |-> "Extracting features...",
               cb |-> "L110c", next |-> "L111"],
     L112 |-> [stage |-> CANCELLED, progress |-> 0, status |-> "Cancelled",
               cb |-> "L112c", next |-> "finished"],
     L116 |-> [stage |-> EXTRACTING, progress |-> 25, status |-> "Features extracted",
               cb |-> "L116c", next |-> "L118"],
     L118 |-> [stage |-> MATCHING, progress |-> 25, status |-> "Matching features...",
               cb |-> "L118c", next |-> "L119"],
     L120 |-> [stage |-> CANCELLED, progress |-> 25, status |-> "Cancelled",
               cb |-> "L120c", next |-> "finished"],
     L124 |-> [stage |-> MATCHING, progress |-> 50, status |-> "Matching complete",
               cb |-> "L124c", next |-> "L126"],
     L126 |-> [stage |-> RECONSTRUCTING, progress |-> 50, status |-> "Reconstructing...",
               cb |-> "L126c", next |-> "L127"],
     L128 |-> [stage |-> CANCELLED, progress |-> 50, status |-> "Cancelled",
               cb |-> "L128c", next |-> "finished"],
     L136 |-> [stage |-> ERROR, progress |-> 50, status |-> "result.error",
               cb |-> "L136c", next |-> "L137"],
     L141 |-> [stage |-> UNDISTORTING, progress |-> 75, status |-> "Undistorting images...",
               cb |-> "L141c", next |-> "L142"],
     L143 |-> [stage |-> CANCELLED, progress |-> 75, status |-> "Cancelled",
               cb |-> "L143c", next |-> "finished"],
     L155 |-> [stage |-> DONE, progress |-> 100, status |-> "Complete",
               cb |-> "L155c", next |-> "L158"],
     L163u |-> [stage |-> ERROR, progress |-> -1, status |-> "str(e)",
               cb |-> "L163c", next |-> "L164"]]

\* The arguments _update is called with at label l: line 136 passes
\* result.error or "Reconstruction failed", line 163 passes the value of
\* self._progress it has read and str(e).
UpdateArgs(w, l) ==
    CASE l = "L136" ->
           [UpdateSite[l] EXCEPT !.status = StrOr(res[w].error, "Reconstruction failed")]
      [] l = "L163u" ->
           [UpdateSite[l] EXCEPT !.progress = argp[w], !.status = exc[w]]
      [] OTHER -> UpdateSite[l]

\* _update, runner.py:96-99: stage, progress and status written under the lock
update(w) ==
    /\ pc[w] \in DOMAIN UpdateSite
    /\ LET a == UpdateArgs(w, pc[w]) IN
         /\ stage' = a.stage
         /\ progress' = a.progress
         /\ status' = a.status
         /\ published' = published \cup {<<a.stage, a.progress>>}
         /\ pc' = [pc EXCEPT ![w] = a.cb]
    /\ WithLock(w)
    /\ UNCHANGED <<ctorVars, syncVars, panelVars, unlocked, waitVars, lateCancel, cancelled, result, startVars, cancelCalls,
                   res, exc, argp, chk, calls, nComplete, errArgs, raised, readerVars>>

UpdateCallbackLabels == {UpdateSite[l].cb : l \in DOMAIN UpdateSite}
SiteOfCallback(c) == CHOOSE l \in DOMAIN UpdateSite : UpdateSite[l].cb = c

\* _update, runner.py:101-102: on_progress, when given, is called outside the
\* lock; it returns or raises
update_on_progress(w) ==
    /\ pc[w] \in UpdateCallbackLabels
    /\ \/ /\ pc' = [pc EXCEPT ![w] = UpdateSite[SiteOfCallback(pc[w])].next]
          /\ UNCHANGED <<exc, raised>>
       \/ /\ on_progress
          /\ Raise(w, ProgressCallbackError)
    /\ UNCHANGED <<ctorVars, syncVars, panelVars, lockVars, waitVars, lateCancel, jobVars, startVars, cancelCalls, res, argp, chk,
                   calls, nComplete, errArgs, published, readerVars>>

\* The check_cancelled() sites (runner.py:111, 119, 127, 142)
CheckSite ==
    [L111 |-> [set |-> "L112", clear |-> "L115"],
     L119 |-> [set |-> "L120", clear |-> "L123"],
     L127 |-> [set |-> "L128", clear |-> "L131"],
     L142 |-> [set |-> "L143", clear |-> "L146"]]

\* check_cancelled, runner.py:106-108, and the branch on what it returned
check_cancelled(w) ==
    /\ pc[w] \in DOMAIN CheckSite
    /\ chk' = [chk EXCEPT ![w] = cancelled]
    /\ pc' = [pc EXCEPT ![w] = IF cancelled THEN CheckSite[pc[w]].set
                                            ELSE CheckSite[pc[w]].clear]
    /\ WithLock(w)
    /\ UNCHANGED <<ctorVars, syncVars, panelVars, unlocked, waitVars, lateCancel, jobVars, startVars, cancelCalls, res, exc, argp,
                   logVars, readerVars>>

\* The calls into the stage functions (runner.py:115, 123, 131, 146)
StageSite ==
    [L115 |-> [fn |-> "extract_features", in |-> "L115r", next |-> "L116",
               error |-> ExtractError],
     L123 |-> [fn |-> "match_features", in |-> "L123r", next |-> "L124",
               error |-> MatchError],
     L131 |-> [fn |-> "reconstruct", in |-> "L131r", next |-> "L133",
               error |-> ReconstructError],
     L146 |-> [fn |-> "undistort_images", in |-> "L146r", next |-> "L147",
               error |-> UndistortError]]

InStageLabels == {StageSite[l].in : l \in DOMAIN StageSite}
SiteOfStage(r) == CHOOSE l \in DOMAIN StageSite : StageSite[l].in = r

\* The worker is inside stage function f
Executing(w, f) == pc[w] \in InStageLabels /\ StageSite[SiteOfStage(pc[w])].fn = f

\* The worker calls a stage function; the lock is not held
stage_call(w) ==
    /\ pc[w] \in DOMAIN StageSite
    /\ calls' = [calls EXCEPT ![StageSite[pc[w]].fn] = @ + 1]
    /\ pc' = [pc EXCEPT ![w] = StageSite[pc[w]].in]
    /\ UNCHANGED <<ctorVars, syncVars, panelVars, lockVars, waitVars, lateCancel, jobVars, startVars, cancelCalls, res, exc, argp, chk,
                   nComplete, errArgs, raised, published, readerVars>>

\* The stage function returns or raises.  reconstruct returns a successful or
\* a failed ReconstructionResult (reconstruction.py:39-61); undistort_images
\* reads config.undistorted_path first (undistort.py:25), which raises
\* AttributeError on a configuration without it.
stage_return(w) ==
    /\ pc[w] \in InStageLabels
    /\ LET site == StageSite[SiteOfStage(pc[w])] IN
         IF site.fn = "undistort_images" /\ ~HasUndistortedPath(config)
           THEN Raise(w, AttributeError) /\ res' = res
           ELSE \/ /\ site.fn # "reconstruct"
                   /\ pc' = [pc EXCEPT ![w] = site.next]
                   /\ UNCHANGED <<res, exc, raised>>
                \/ /\ site.fn = "reconstruct"
                   /\ \E r \in {ReconstructSuccess, ReconstructFailure} :
                         res' = [res EXCEPT ![w] = r]
                   /\ pc' = [pc EXCEPT ![w] = site.next]
                   /\ UNCHANGED <<exc, raised>>
                \/ /\ Raise(w, site.error)
                   /\ res' = res
    /\ UNCHANGED <<ctorVars, syncVars, panelVars, lockVars, waitVars, lateCancel, jobVars, startVars, cancelCalls, argp, chk,
                   calls, nComplete, errArgs, published, readerVars>>

\* A branch that would go on to undistortion whatever reconstruct returned
branch_always_undistort(w) ==
    /\ pc[w] = "L133"
    /\ pc' = [pc EXCEPT ![w] = "L141"]
    /\ UNCHANGED <<ctorVars, syncVars, panelVars, lockVars, waitVars, lateCancel, jobVars, startVars, cancelCalls, res, exc, argp, chk,
                   logVars, readerVars>>

\* runner.py:133: if not result.success
branch_success(w) ==
    /\ pc[w] = "L133"
    /\ pc' = [pc EXCEPT ![w] = IF res[w].success THEN "L141" ELSE "L134"]
    /\ UNCHANGED <<ctorVars, syncVars, panelVars, lockVars, waitVars, lateCancel, jobVars, startVars, cancelCalls, res, exc, argp, chk,
                   logVars, readerVars>>

\* runner.py:147-150: result.undistorted_path = self.config.undistorted_path
\* (AttributeError when the configuration has none), then the logging
attach_undistorted(w) ==
    /\ pc[w] = "L147"
    /\ IF HasUndistortedPath(config)
         THEN /\ res' = [res EXCEPT ![w].undistorted_path = config.undistorted_path]
              /\ pc' = [pc EXCEPT ![w] = "L152"]
              /\ UNCHANGED <<exc, raised>>
         ELSE /\ Raise(w, AttributeError)
              /\ res' = res
    /\ UNCHANGED <<ctorVars, syncVars, panelVars, lockVars, waitVars, lateCancel, jobVars, startVars, cancelCalls, argp, chk,
                   calls, nComplete, errArgs, published, readerVars>>

\* The assignments to self._result under the lock: runner.py:134-135 and
\* 152-153 store the local result, 164-165 a new failed result built from str(e)
ResultSite ==
    [L134 |-> [next |-> "L136"], L152 |-> [next |-> "L155"], L164 |-> [next |-> "L167"]]

set_result(w) ==
    /\ pc[w] \in DOMAIN ResultSite
    /\ result' = IF pc[w] = "L164" THEN FailedResult(exc[w]) ELSE res[w]
    /\ pc' = [pc EXCEPT ![w] = ResultSite[pc[w]].next]
    /\ WithLock(w)
    /\ UNCHANGED <<ctorVars, syncVars, panelVars, unlocked, waitVars, lateCancel, stage, progress, status, cancelled, startVars,
                   cancelCalls, res, exc, argp, chk, logVars, readerVars>>

\* runner.py:137-139 and 167-168: on_error, when given, is called with
\* Exception(result.error) or with the caught e; it returns or raises
call_on_error(w) ==
    /\ pc[w] \in {"L137", "L167"}
    /\ LET arg == IF pc[w] = "L137" THEN ExceptionOf(res[w].error) ELSE exc[w] IN
         \/ /\ ~on_error
            /\ pc' = [pc EXCEPT ![w] = "finished"]
            /\ UNCHANGED <<errArgs, exc, raised>>
         \/ /\ on_error
            /\ errArgs' = Append(errArgs, arg)
            /\ \/ /\ pc' = [pc EXCEPT ![w] = "finished"]
                  /\ UNCHANGED <<exc, raised>>
               \/ Raise(w, ErrorCallbackError)
    /\ UNCHANGED <<ctorVars, syncVars, panelVars, lockVars, waitVars, lateCancel, jobVars, startVars, cancelCalls, res, argp, chk,
                   calls, nComplete, published, readerVars>>

\* runner.py:158-160: on_complete, when given, is called with the result; it
\* returns or raises
call_on_complete(w) ==
    /\ pc[w] = "L158"
    /\ \/ /\ ~on_complete
          /\ pc' = [pc EXCEPT ![w] = "finished"]
          /\ UNCHANGED <<nComplete, exc, raised>>
       \/ /\ on_complete
          /\ nComplete' = nComplete + 1
          /\ \/ /\ pc' = [pc EXCEPT ![w] = "finished"]
                /\ UNCHANGED <<exc, raised>>
             \/ Raise(w, CompleteCallbackError)
    /\ UNCHANGED <<ctorVars, syncVars, panelVars, lockVars, waitVars, lateCancel, jobVars, startVars, cancelCalls, res, argp, chk,
                   calls, errArgs, published, readerVars>>

\* runner.py:163: the arguments of _update are evaluated, self._progress is
\* read without the lock
handler_read_progress(w) ==
    /\ pc[w] = "L163"
    /\ argp' = [argp EXCEPT ![w] = progress]
    /\ pc' = [pc EXCEPT ![w] = "L163u"]
    /\ unlocked' = unlocked \cup {<<"_run", "_progress">>}
    /\ UNCHANGED <<ctorVars, syncVars, panelVars, lock, waitVars, lateCancel, jobVars, startVars, cancelCalls, res, exc, chk,
                   logVars, readerVars>>

\* What a consumer sees of an Optional[ReconstructionResult]: None, a
\* successful Result or a failed one
ResultKind(r) ==
    IF ~r.present THEN "absent" ELSE IF r.success THEN "success" ELSE "failed"

\* An is_running() that would leave out the last active stage
is_running_without_undistorting ==
    stage \in {EXTRACTING, MATCHING, RECONSTRUCTING}

\* is_running(), runner.py:72-78
is_running ==
    stage \in {EXTRACTING, MATCHING, RECONSTRUCTING, UNDISTORTING}

\* wait(timeout), runner.py:90-93, called by thread t: without a thread it
\* returns self._result at once, otherwise it joins the thread
wait_call(t, timed) ==
    /\ t \in starters
    /\ spc[t] = "out"
    /\ wpc[t] = "out"
    /\ waits[t] < MaxWaits
    /\ waits' = [waits EXCEPT ![t] = @ + 1]
    /\ IF thread = None
         THEN /\ wret' = [kind |-> "unstarted", value |-> result, stage |-> stage,
                          finished |-> FALSE]
              /\ unlocked' = unlocked \cup {<<"wait", "_result">>}
              /\ wpc' = wpc
         ELSE /\ wpc' = [wpc EXCEPT ![t] = IF timed THEN "join_timeout" ELSE "join"]
              /\ UNCHANGED <<wret, unlocked>>
    /\ UNCHANGED <<ctorVars, syncVars, panelVars, jobVars, startVars, cancelCalls, workerVars, logVars,
                   readerVars, lock, lateCancel>>

\* wait(timeout), runner.py:92-93: join returns once the thread has ended, or,
\* with a timeout, when the timeout has elapsed; self._result is then read
\* without the lock and returned
wait_return(t) ==
    /\ wpc[t] \in {"join", "join_timeout"}
    /\ wpc[t] = "join" => Terminated(thread)
    /\ wret' = [kind |-> wpc[t], value |-> result, stage |-> stage,
                finished |-> Terminated(thread)]
    /\ unlocked' = unlocked \cup {<<"wait", "_result">>}
    /\ wpc' = [wpc EXCEPT ![t] = "out"]
    /\ UNCHANGED <<ctorVars, syncVars, panelVars, jobVars, startVars, cancelCalls, workerVars, logVars,
                   readerVars, lock, waits, lateCancel>>

\* ------------------------------------------------------------ the reader
\* The stage property (runner.py:52-55), polled by a consumer
read_stage ==
    /\ polls < MaxPolls
    /\ rdStage' = stage
    /\ rdResult' = None
    /\ polls' = polls + 1
    /\ WithLock("reader")
    /\ UNCHANGED <<ctorVars, syncVars, panelVars, unlocked, waitVars, lateCancel, jobVars, startVars, cancelCalls, workerVars, logVars>>

\* The result property (runner.py:67-70), polled after the stage
read_result ==
    /\ rdStage # None
    /\ rdResult = None
    /\ rdResult' = ResultKind(result)
    /\ WithLock("reader")
    /\ UNCHANGED <<ctorVars, syncVars, panelVars, unlocked, waitVars, lateCancel, jobVars, startVars, cancelCalls, workerVars, logVars,
                   polls, rdStage>>

\* _run (runner.py:104-168), one step of worker w
run(w) ==
    \/ update(w)
    \/ update_on_progress(w)
    \/ check_cancelled(w)
    \/ stage_call(w)
    \/ stage_return(w)
    \/ branch_success(w)
    \/ attach_undistorted(w)
    \/ set_result(w)
    \/ call_on_error(w)
    \/ call_on_complete(w)
    \/ handler_read_progress(w)

Next ==
    \/ \E t \in Threads : start_check(t)
    \/ \E t \in Threads : start_raise(t)
    \/ \E t \in Threads : start_spawn(t)
    \/ cancel
    \/ \E w \in Threads : run(w)
    \/ read_stage
    \/ read_result

\* A job owned by one consumer thread
Spec == Init /\ [][Next]_vars

\* A consumer that waits for the job instead of polling it
NextWait ==
    \/ \E t \in Threads : start_check(t)
    \/ \E t \in Threads : start_raise(t)
    \/ \E t \in Threads : start_spawn(t)
    \/ cancel
    \/ \E w \in Threads : run(w)
    \/ \E t \in Threads, timed \in BOOLEAN : wait_call(t, timed)
    \/ \E t \in Threads : wait_return(t)

SpecWait == Init /\ [][NextWait]_vars

\* The worker thread, once started, keeps running until _run returns or raises
\* (threading.Thread, runner.py:87-88); a start() that passed its test goes on
\* to spawn the thread
SpecFair ==
    /\ Spec
    /\ \A w \in Threads : WF_vars(run(w))
    /\ \A t \in Threads : WF_vars(start_spawn(t))

\* The steps of a job whose start() is called from two threads: the calls of
\* start() and the workers they spawn
NextRace ==
    \/ \E t \in Threads : start_check(t)
    \/ \E t \in Threads : start_raise(t)
    \/ \E t \in Threads : start_spawn(t)
    \/ \E w \in Threads : run(w)

\* A job whose start() is called from two threads
SpecRace == InitRace /\ [][NextRace]_vars

\* ---------------------------------------------------------- run_pipeline
\* The match_type values match_features knows (matching.py:30-49) and one it
\* does not
MatchTypes == {"exhaustive", "sequential", "vocab_tree", "spatial"}
UnknownMatchType == "bogus"

\* What the progress callback handed to the stage functions does, None when
\* there is none (pipeline.py:20)
ProgressBehaviours == {None, "returns", "raises"}

\* The arguments of run_pipeline and the state of the file system they meet:
\* whether the image directory holds images (features.py:26-36) and whether
\* the output directory can be made (utils.py:25-29)
PipelineArgs ==
    [has_images : BOOLEAN, output_ok : BOOLEAN,
     match_type : MatchTypes \cup {UnknownMatchType}, progress : ProgressBehaviours]

\* OSError of Path.mkdir / tempfile.mkdtemp in ColmapConfig.__post_init__
ConfigError == "cannot create output directory"
\* an exception raised inside pycolmap
PycolmapError == "pycolmap failed"

\* The stage calls of the try block (pipeline.py:42-44)
SyncSite ==
    [L42 |-> [fn |-> "extract_features", next |-> "L43"],
     L43 |-> [fn |-> "match_features", next |-> "L44"],
     L44 |-> [fn |-> "reconstruct", next |-> "returned"]]

\* What a stage function called with the arguments a can do: the messages of
\* the exceptions it can raise, and whether it can return.
\* extract_features raises ValueError without images (features.py:35-36),
\* else calls progress (38-39) and pycolmap; match_features calls progress
\* first (matching.py:25-26), raises ValueError on an unknown match type
\* (50-51), else calls pycolmap; reconstruct calls progress first
\* (reconstruction.py:25-26), then pycolmap.
SyncRaises(f, a) ==
    IF f = "extract_features" /\ ~a.has_images THEN {ExtractError}
    ELSE IF a.progress = "raises" THEN {ProgressCallbackError}
    ELSE IF f = "match_features" /\ a.match_type = UnknownMatchType THEN {MatchError}
    ELSE {PycolmapError}

SyncCanReturn(f, a) ==
    /\ f = "extract_features" => a.has_images
    /\ a.progress # "raises"
    /\ f = "match_features" => a.match_type \in MatchTypes

\* run_pipeline is called (pipeline.py:15-21)
run_pipeline_call ==
    /\ rp_pc = "idle"
    /\ \E a \in PipelineArgs : rp_args' = a
    /\ rp_pc' = "L34"
    /\ UNCHANGED <<runnerVars, panelVars, rp_calls, rp_caught, rp_rec, rp_ret, rp_exc>>

\* pipeline.py:34-39: the configuration is built, outside the try block; an
\* exception of __post_init__ goes to the caller
run_pipeline_config ==
    /\ rp_pc = "L34"
    /\ IF rp_args.output_ok
         THEN rp_pc' = "L42" /\ rp_exc' = rp_exc
         ELSE rp_pc' = "raised" /\ rp_exc' = ConfigError
    /\ UNCHANGED <<runnerVars, panelVars, rp_args, rp_calls, rp_caught, rp_rec, rp_ret>>

\* pipeline.py:42-44: a stage function is called on the calling thread and
\* returns or raises; what reconstruct returns is returned (line 44)
run_pipeline_stage ==
    /\ rp_pc \in DOMAIN SyncSite
    /\ LET f == SyncSite[rp_pc].fn IN
         /\ rp_calls' = Append(rp_calls, f)
         /\ \/ /\ SyncCanReturn(f, rp_args)
               /\ rp_pc' = SyncSite[rp_pc].next
               /\ IF f = "reconstruct"
                    THEN \E r \in {ReconstructSuccess, ReconstructFailure} :
                            rp_rec' = r /\ rp_ret' = r
                    ELSE UNCHANGED <<rp_rec, rp_ret>>
               /\ rp_caught' = rp_caught
            \/ /\ \E m \in SyncRaises(f, rp_args) : rp_caught' = [msg |-> m, in |-> f]
               /\ rp_pc' = "L47"
               /\ UNCHANGED <<rp_rec, rp_ret>>
    /\ UNCHANGED <<runnerVars, panelVars, rp_args, rp_exc>>

\* An except block that would re-raise what it caught
run_pipeline_reraise ==
    /\ rp_pc = "L47"
    /\ rp_exc' = rp_caught.msg
    /\ rp_pc' = "raised"
    /\ UNCHANGED <<runnerVars, panelVars, rp_args, rp_calls, rp_caught, rp_rec, rp_ret>>

\* pipeline.py:46-47: return ReconstructionResult(success=False, error=str(e))
run_pipeline_except ==
    /\ rp_pc = "L47"
    /\ rp_ret' = FailedResult(rp_caught.msg)
    /\ rp_pc' = "returned"
    /\ UNCHANGED <<runnerVars, panelVars, rp_args, rp_calls, rp_caught, rp_rec, rp_exc>>

NextSync ==
    \/ run_pipeline_call
    \/ run_pipeline_config
    \/ run_pipeline_stage
    \/ run_pipeline_except

\* Before a call of run_pipeline: no job is started; the job of the model
\* stays as built, on the stock configuration
InitSync ==
    /\ Init
    /\ config = ColmapConfig
    /\ on_progress /\ on_complete /\ on_error

\* One synchronous call of run_pipeline
SpecSync == InitSync /\ [][NextSync]_vars

\* ----------------------------------------------------------- ColmapPanel
\* What the user can have typed into the image folder input
\* (panels/reconstruction.py:39)
ImagePaths == {"", "images"}

\* str(result.sparse_path.parent) of a successful Result
SparseParent == "out/sparse"

\* draw, panels/reconstruction.py:32-42: a pending import is taken and opened,
\* the path inputs are read
draw_begin ==
    /\ dpc = "frame"
    /\ pending_import' = None
    /\ \E p \in ImagePaths : image_path' = p
    /\ dpc' = "L56"
    /\ UNCHANGED <<runnerVars, syncVars, panel_job, last_result, njobs, wrote,
                   jpc, jstage, jprogress, jcancelled, jres, jexc, jresult>>

\* draw, line 56: `self.job and self.job.is_running()` chooses between the
\* progress display with the Cancel button and the Start button
draw_poll ==
    /\ dpc = "L56"
    /\ dpc' = IF panel_job # 0 /\ jstage[panel_job] \in
                     {EXTRACTING, MATCHING, RECONSTRUCTING, UNDISTORTING}
                THEN "L57" ELSE "L66"
    /\ UNCHANGED <<runnerVars, syncVars, panel_job, image_path, last_result, pending_import,
                   njobs, wrote, jpc, jstage, jprogress, jcancelled, jres, jexc, jresult>>

\* draw, lines 57-64: stage, progress and status are shown; the Cancel button,
\* when clicked, calls job.cancel()
draw_running ==
    /\ dpc = "L57"
    /\ \E clicked \in BOOLEAN :
          jcancelled' = IF clicked THEN [jcancelled EXCEPT ![panel_job] = TRUE]
                                   ELSE jcancelled
    /\ dpc' = "frame"
    /\ UNCHANGED <<runnerVars, syncVars, panel_job, image_path, last_result, pending_import,
                   njobs, wrote, jpc, jstage, jprogress, jres, jexc, jresult>>

\* draw, lines 66-67, and _start, lines 86-87: the Start button, when clicked,
\* calls _start, which returns at once without an image path
draw_offer_start ==
    /\ dpc = "L66"
    /\ \E clicked \in BOOLEAN :
          dpc' = IF clicked /\ image_path # "" /\ njobs < MaxJobs THEN "L89" ELSE "frame"
    /\ UNCHANGED <<runnerVars, syncVars, panel_job, image_path, last_result, pending_import,
                   njobs, wrote, jpc, jstage, jprogress, jcancelled, jres, jexc, jresult>>

\* _start, line 89: self.last_result = None
start_reset ==
    /\ dpc = "L89"
    /\ last_result' = NoResult
    /\ dpc' = "L90"
    /\ UNCHANGED <<runnerVars, syncVars, panel_job, image_path, pending_import,
                   njobs, wrote, jpc, jstage, jprogress, jcancelled, jres, jexc, jresult>>

\* _start, lines 90-97, and run_pipeline_async, pipeline.py:73-87: the
\* configuration is built (an exception of it leaves draw), a ColmapJob is
\* built with on_complete and on_error and without on_progress, its worker
\* thread is started and the job is stored in self.job
start_launch ==
    /\ dpc = "L90"
    /\ dpc' = "frame"
    /\ \E output_ok \in BOOLEAN :
          IF output_ok
            THEN /\ njobs' = njobs + 1
                 /\ jpc' = [jpc EXCEPT ![njobs + 1] = "L110"]
                 /\ panel_job' = njobs + 1
            ELSE UNCHANGED <<njobs, jpc, panel_job>>
    /\ UNCHANGED <<runnerVars, syncVars, image_path, last_result, pending_import, wrote,
                   jstage, jprogress, jcancelled, jres, jexc, jresult>>

\* An exception with message msg raised in the try block of job j's _run is
\* caught at runner.py:162; self._progress is read for the Error update
JobRaise(j, msg) ==
    /\ jexc' = [jexc EXCEPT ![j] = msg]
    /\ jpc' = [jpc EXCEPT ![j] = "L163u"]

\* _update of job j (runner.py:95-102); the job has no on_progress
job_update(j) ==
    /\ jpc[j] \in DOMAIN UpdateSite
    /\ jstage' = [jstage EXCEPT ![j] = UpdateSite[jpc[j]].stage]
    /\ jprogress' = [jprogress EXCEPT ![j] =
                        IF jpc[j] = "L163u" THEN @ ELSE UpdateSite[jpc[j]].progress]
    /\ jpc' = [jpc EXCEPT ![j] = UpdateSite[jpc[j]].next]
    /\ UNCHANGED <<runnerVars, syncVars, panel_job, image_path, last_result, pending_import,
                   dpc, njobs, wrote, jcancelled, jres, jexc, jresult>>

\* check_cancelled of job j (runner.py:106-108) and the branch on it
job_check_cancelled(j) ==
    /\ jpc[j] \in DOMAIN CheckSite
    /\ jpc' = [jpc EXCEPT ![j] = IF jcancelled[j] THEN CheckSite[jpc[j]].set
                                                  ELSE CheckSite[jpc[j]].clear]
    /\ UNCHANGED <<runnerVars, syncVars, panel_job, image_path, last_result, pending_import,
                   dpc, njobs, wrote, jstage, jprogress, jcancelled, jres, jexc, jresult>>

\* A stage function called by job j returns or raises (runner.py:115-146);
\* the job is built on the stock ColmapConfig, so undistort_images raises
\* AttributeError (undistort.py:25)
job_stage(j) ==
    /\ jpc[j] \in DOMAIN StageSite
    /\ LET site == StageSite[jpc[j]] IN
         IF site.fn = "undistort_images" /\ ~HasUndistortedPath(ColmapConfig)
           THEN JobRaise(j, AttributeError) /\ jres' = jres
           ELSE \/ /\ jpc' = [jpc EXCEPT ![j] = site.next]
                   /\ IF site.fn = "reconstruct"
                        THEN \E r \in {ReconstructSuccess, ReconstructFailure} :
                                jres' = [jres EXCEPT ![j] = r]
                        ELSE jres' = jres
                   /\ jexc' = jexc
                \/ /\ JobRaise(j, site.error)
                   /\ jres' = jres
    /\ UNCHANGED <<runnerVars, syncVars, panel_job, image_path, last_result, pending_import,
                   dpc, njobs, wrote, jstage, jprogress, jcancelled, jresult>>

\* runner.py:133 and 147 in job j: the branch on result.success, and the
\* assignment of config.undistorted_path
job_branch(j) ==
    /\ jpc[j] \in {"L133", "L147"}
    /\ IF jpc[j] = "L133"
         THEN /\ jpc' = [jpc EXCEPT ![j] = IF jres[j].success THEN "L141" ELSE "L134"]
              /\ UNCHANGED <<jres, jexc>>
         ELSE IF HasUndistortedPath(ColmapConfig)
           THEN /\ jres' = [jres EXCEPT ![j].undistorted_path = ColmapConfig.undistorted_path]
                /\ jpc' = [jpc EXCEPT ![j] = "L152"]
                /\ jexc' = jexc
           ELSE JobRaise(j, AttributeError) /\ jres' = jres
    /\ UNCHANGED <<runnerVars, syncVars, panel_job, image_path, last_result, pending_import,
                   dpc, njobs, wrote, jstage, jprogress, jcancelled, jresult>>

\* The assignments of self._result in job j (runner.py:134-135, 152-153, 164-165)
job_set_result(j) ==
    /\ jpc[j] \in DOMAIN ResultSite
    /\ jresult' = [jresult EXCEPT ![j] =
                      IF jpc[j] = "L164" THEN FailedResult(jexc[j]) ELSE jres[j]]
    /\ jpc' = [jpc EXCEPT ![j] = ResultSite[jpc[j]].next]
    /\ UNCHANGED <<runnerVars, syncVars, panel_job, image_path, last_result, pending_import,
                   dpc, njobs, wrote, jstage, jprogress, jcancelled, jres, jexc>>

\* Job j calls back into the panel on its worker thread (runner.py:137-138,
\* 158-160, 167-168).  _on_error (panels/reconstruction.py:112-113) stores a
\* failed Result built from str(error); _on_complete (99-110) stores the
\* result and queues the import of its undistorted path, else of the parent
\* of its sparse path.
job_callback(j) ==
    /\ jpc[j] \in {"L137", "L158", "L167"}
    /\ IF jpc[j] = "L158"
         THEN /\ last_result' = jres[j]
              /\ pending_import' =
                    IF jres[j].undistorted_path # None THEN jres[j].undistorted_path
                    ELSE IF jres[j].sparse_path # None THEN SparseParent
                    ELSE pending_import
         ELSE /\ last_result' = FailedResult(IF jpc[j] = "L137"
                                               THEN ExceptionOf(jres[j].error)
                                               ELSE jexc[j])
              /\ pending_import' = pending_import
    /\ wrote' = wrote \cup {<<j, panel_job>>}
    /\ jpc' = [jpc EXCEPT ![j] = "finished"]
    /\ UNCHANGED <<runnerVars, syncVars, panel_job, image_path, dpc, njobs,
                   jstage, jprogress, jcancelled, jres, jexc, jresult>>

\* _run of job j (runner.py:104-168), one step
job_run(j) ==
    \/ job_update(j)
    \/ job_check_cancelled(j)
    \/ job_stage(j)
    \/ job_branch(j)
    \/ job_set_result(j)
    \/ job_callback(j)

\* One frame of the panel after the other on the main thread, and the worker
\* threads of the jobs it has started
NextPanel ==
    \/ draw_begin
    \/ draw_poll
    \/ draw_running
    \/ draw_offer_start
    \/ start_reset
    \/ start_launch
    \/ \E j \in Jobs : job_run(j)

\* ColmapPanel.__init__ (panels/reconstruction.py:18-28): no job yet
InitPanel ==
    /\ Init
    /\ config = ColmapConfig
    /\ ~on_progress /\ on_complete /\ on_error

SpecPanel == InitPanel /\ [][NextPanel]_vars

\* ================================================================ claims
Terminal == {DONE, ERROR, CANCELLED}

\* The order of the stages: Idle < Extracting < Matching < Reconstructing <
\* Undistorting < the terminal stages
StageRank(s) ==
    CASE s = IDLE -> 0
      [] s = EXTRACTING -> 1
      [] s = MATCHING -> 2
      [] s = RECONSTRUCTING -> 3
      [] s = UNDISTORTING -> 4
      [] OTHER -> 5

\* The 'entering' update in front of each stage function call
EnterSite == [L115 |-> "L110", L123 |-> "L118", L131 |-> "L126", L146 |-> "L141"]

\* The messages stage function call site l can raise
ErrorsOf(l) ==
    IF l = "L146" THEN {StageSite[l].error, AttributeError} ELSE {StageSite[l].error}

\* The stage functions called after site l
LaterFunctions(l) ==
    {StageSite[m].fn : m \in {n \in DOMAIN StageSite :
        UpdateSite[EnterSite[n]].progress > UpdateSite[EnterSite[l]].progress}}

NoCallbackRaised == raised \cap CallbackErrors = {}
NErrorCalls == Len(errArgs)

\* C1: in every run, whatever the stage functions and the callbacks do,
\* on_complete and on_error are invoked at most once in total.
C1_AtMostOneNotification ==
    nComplete + NErrorCalls <= 1

\* C1, the notification by outcome: a run that has ended in Done has invoked
\* on_complete once and on_error never, one that has ended in Error on_error
\* once and on_complete never, one that has ended in Cancelled neither.
C1_NotificationMatchesOutcome ==
    \A w \in Threads : Terminated(w) =>
       /\ stage = DONE => (on_complete => nComplete = 1) /\ NErrorCalls = 0
       /\ stage = ERROR => (on_error => NErrorCalls = 1) /\ nComplete = 0
       /\ stage = CANCELLED => nComplete = 0 /\ NErrorCalls = 0

\* C2: a run in which a stage function raised e ends with stage Error, the
\* failed result carrying str(e), the progress of the update that entered
\* the stage, on_error invoked exactly once with e, and no later stage
\* function invoked.
C2_StageFailure ==
    \A w \in Threads : \A l \in DOMAIN StageSite : \A msg \in ErrorsOf(l) :
      (Terminated(w) /\ msg \in raised /\ calls[StageSite[l].fn] > 0) =>
         /\ stage = ERROR
         /\ result = FailedResult(msg)
         /\ progress = UpdateSite[EnterSite[l]].progress
         /\ errArgs = IF on_error THEN <<msg>> ELSE <<>>
         /\ \A f \in LaterFunctions(l) : calls[f] = 0

\* C2, restricted to the runs in which on_progress does not raise: what is
\* left of the claim once the escaping callback exception of C10 is set aside
C2_StageFailureQuietProgress ==
    ProgressCallbackError \notin raised => C2_StageFailure

\* C3: while the stage is Done, progress is 100 and the result is a
\* successful one; in a run that has published Done, on_error is never
\* invoked, and when the run has ended on_complete has been invoked exactly
\* once.
C3_DoneMeansCompleted ==
    /\ stage = DONE => progress = 100 /\ result.present /\ result.success
    /\ (<<DONE, 100>> \in published) =>
         /\ NErrorCalls = 0
         /\ \A w \in Threads : Terminated(w) => (on_complete => nComplete = 1)

\* C4: a run that was never cancelled and in which no collaborator and no
\* callback failed (reconstruct returning success) ends in Done with a
\* successful result whose undistorted_path is the configuration's
\* undistorted directory, the published progress values being exactly
\* 0, 25, 50, 75, 100.
C4_HappyPathReachesDone ==
    \A w \in Threads :
      (Terminated(w) /\ cancelCalls = 0 /\ raised \cap (StageErrors \cup CallbackErrors) = {}
          /\ res[w] # ReconstructFailure) =>
         /\ stage = DONE
         /\ result.present /\ result.success
         /\ result.undistorted_path = ExtendedConfig.undistorted_path
         /\ {p[2] : p \in published} = {0, 25, 50, 75, 100}

\* C4, for a configuration that carries an undistorted_path
C4_HappyPathWithUndistortedPath ==
    HasUndistortedPath(config) => C4_HappyPathReachesDone

\* C4, the progress of such a run: once the worker has been started, on a
\* configuration that carries an undistorted_path, the job reaches Done unless
\* it is cancelled, a collaborator or callback raises, or reconstruct returns
\* its failure
C4_EventuallyDone ==
    \/ [](thread = None)
    \/ <>(\/ stage = DONE
          \/ ~HasUndistortedPath(config)
          \/ cancelCalls > 0
          \/ raised # {}
          \/ \E w \in Threads : res[w] = ReconstructFailure)

\* C5: when check_cancelled() has found the flag set, the run ends in
\* Cancelled at the progress of that boundary, with no callback of completion
\* or error invoked, no Result published and no later stage function invoked.
C5_CancelledAtBoundary ==
    \A w \in Threads : \A l \in DOMAIN StageSite :
      (Terminated(w) /\ chk[w] /\ <<CANCELLED, UpdateSite[EnterSite[l]].progress>> \in published) =>
         /\ stage = CANCELLED
         /\ progress = UpdateSite[EnterSite[l]].progress
         /\ nComplete = 0 /\ NErrorCalls = 0
         /\ ~result.present
         /\ calls[StageSite[l].fn] = 0
         /\ \A f \in LaterFunctions(l) : calls[f] = 0

\* C5, restricted to the runs in which no callback raises
C5_CancelledAtBoundaryQuiet ==
    NoCallbackRaised => C5_CancelledAtBoundary

\* C6: once cancel() has returned the worker begins no stage function.
C6_NoStageAfterCancel ==
    [][cancelled => calls' = calls]_vars

\* C6, for a cancel() that returned before the flag check of a boundary: the
\* stage function behind a check that found the flag set is never called
C6_NoStageAfterSeenCancel ==
    [][(\E w \in Threads : chk[w]) => calls' = calls]_vars

\* C7: progress never decreases and stays in 0..100, the stage never moves
\* back in the order of the stages, and a terminal stage never changes.
C7_Monotone ==
    [][/\ progress' >= progress
       /\ progress' \in 0..100
       /\ StageRank(stage') >= StageRank(stage)
       /\ stage \in Terminal => stage' = stage]_vars

\* C7, the part about progress alone
C7_ProgressMonotone ==
    [][progress' >= progress /\ progress' \in 0..100]_vars

\* C8: whatever the interleaving of the start() calls, at most one worker is
\* spawned, and the calls that did not spawn it raised.
C8_SingleWorker ==
    /\ Cardinality({w \in Threads : pc[w] # "unborn"}) <= 1
    /\ \A t \in Threads :
         (spc[t] = "out" /\ pc[t] = "unborn") => startErrors[t] = startCalls[t]

\* C9: a run in which reconstruct returned a failed Result and one in which
\* it raised look the same: when the callbacks return, both end in Error at
\* 50 with a failed Result, on_error invoked once, on_complete never and
\* undistort_images never called; and in neither does a reader that has read
\* stage Error then find the result absent (the run of the returned failure
\* never shows that, C9_ReturnedFailureOrder).
ReconstructFailed(w) == res[w] = ReconstructFailure \/ ReconstructError \in raised

C9_FailuresIndistinguishable ==
    \A w \in Threads : ReconstructFailed(w) =>
       /\ (Terminated(w) /\ NoCallbackRaised) =>
            /\ stage = ERROR /\ progress = 50
            /\ result.present /\ ~result.success
            /\ NErrorCalls = (IF on_error THEN 1 ELSE 0)
            /\ nComplete = 0
            /\ calls["undistort_images"] = 0
       /\ ~(rdStage = ERROR /\ rdResult = "absent")

\* C9: in a run where reconstruct returned the failed Result, a reader that
\* has read stage Error never finds the result absent
C9_ReturnedFailureOrder ==
    \A w \in Threads : res[w] = ReconstructFailure =>
       ~(rdStage = ERROR /\ rdResult = "absent")

\* C10: no exception leaves the worker thread; a run in which something
\* raised returns with stage Error and a failed Result, and on_error is
\* invoked at most once.
C10_NothingEscapes ==
    /\ \A w \in Threads : ~Escaped(w)
    /\ \A w \in Threads : (Returned(w) /\ raised # {}) =>
          stage = ERROR /\ result.present /\ ~result.success
    /\ NErrorCalls <= 1

\* C11: every read and write of a state field by a method of ColmapJob is made
\* while holding the lock: no method has accessed a field without it.
\* (wait() returns self._result and the except block reads self._progress
\* without the lock.)
C11_AllAccessLocked ==
    unlocked = {}

\* C11: the three fields stage, progress and status change together, in one
\* step of _update, to the arguments of one _update call
C11_TripleChangesTogether ==
    [][(stage' # stage \/ progress' # progress \/ status' # status) =>
         \E w \in Threads :
            /\ pc[w] \in DOMAIN UpdateSite \cup {"L163u"}
            /\ <<stage', progress', status'>> =
                 <<UpdateArgs(w, pc[w]).stage, UpdateArgs(w, pc[w]).progress,
                   UpdateArgs(w, pc[w]).status>>]_vars

\* The labels at which the worker is about to run, or is running, a callback
CallbackLabels == UpdateCallbackLabels \cup {"L137", "L158", "L167"}

\* C12: while the worker is inside a stage function or a callback nobody holds
\* the lock on its behalf: the lock is free, so a reader's stage/result
\* access and a cancel() can run at once.
C12_LockFreeInStagesAndCallbacks ==
    \A w \in Threads : pc[w] \in InStageLabels \cup CallbackLabels =>
       /\ lock = None
       /\ polls < MaxPolls => ENABLED read_stage
       /\ cancelCalls < MaxCancelCalls => ENABLED cancel

\* C12 witness: the worker is inside reconstruct, a reader has read the stage
\* and the result and a cancel() has returned
C12_ReaderServedDuringStage ==
    \E w \in Threads :
       /\ Executing(w, "reconstruct")
       /\ rdStage = RECONSTRUCTING /\ rdResult = "absent"
       /\ cancelled

\* C13: a cancel() only sets the cancellation flag: stage, progress, status and
\* result, the worker's position and the callbacks invoked so far are as they
\* were before the call, in every state of the job.
C13_CancelOnlySetsFlag ==
    [][cancelCalls' # cancelCalls =>
         /\ cancelled'
         /\ UNCHANGED <<stage, progress, status, result, startVars, workerVars, logVars>>]_vars

\* C13: cancel() can be called in every state of the job
C13_CancelAlwaysPossible ==
    cancelCalls < MaxCancelCalls => ENABLED cancel

\* C13 witness: cancel() was called on a job that is Done, and it is still Done
\* with its successful Result and one completion callback
C13_CancelAfterDone ==
    /\ lateCancel
    /\ stage = DONE
    /\ result.present /\ result.success
    /\ nComplete = 1
    /\ errArgs = <<>>

\* What wait() returned, against the stage it returned in
WaitOutcome ==
    /\ wret.kind = "unstarted" => ~wret.value.present
    /\ wret.kind = "join" =>
          /\ wret.finished
          /\ wret.stage \in Terminal
          /\ wret.value = result
          /\ wret.stage \in {DONE, ERROR} => wret.value.present
          /\ wret.stage = CANCELLED => ~wret.value.present

\* C14: wait() before start() returns an absent result at once; wait() without
\* a timeout on a started job returns after the worker has finished, the stage
\* is then terminal and the value returned is the published result: a Result
\* when the stage is Done or Error, absent when it is Cancelled.
C14_WaitReturnsOutcome ==
    WaitOutcome

\* C14: the same, for the runs in which no exception leaves the worker thread
C14_WaitReturnsOutcomeOfReturnedRun ==
    (\A w \in Threads : ~Escaped(w)) => WaitOutcome

\* C14: wait(timeout) may return while the worker is still running, with what
\* is published then: a reachable state, nothing published yet during Matching
C14_TimedWaitReturnsEarly ==
    /\ wret.kind = "join_timeout" /\ ~wret.finished
    /\ wret.stage = MATCHING /\ ~wret.value.present

\* The four active stages
ActiveStages == {EXTRACTING, MATCHING, RECONSTRUCTING, UNDISTORTING}

\* C15: when the cancellation flag is set as the worker reaches the boundary in
\* front of a stage, that stage is not published: with the flag set the
\* current stage never changes to an active stage.  (_run publishes the
\* stage first and checks the flag afterwards.)
C15_CancelledStageNotPublished ==
    [][(cancelled /\ stage' # stage) => stage' \notin ActiveStages]_vars

\* The schedule of the claim: the entering and the completed update of each stage
FullSchedule ==
    {<<EXTRACTING, 0>>, <<EXTRACTING, 25>>, <<MATCHING, 25>>, <<MATCHING, 50>>,
     <<RECONSTRUCTING, 50>>, <<RECONSTRUCTING, 75>>,
     <<UNDISTORTING, 75>>, <<UNDISTORTING, 100>>}

\* C16: a run in which all four stages succeeded has published, for each
\* stage, the entering update at its starting percentage and the completed
\* update at its ending percentage.  (_run has no completed update for
\* Reconstructing and Undistorting.)
C16_EnteringAndCompletedUpdates ==
    stage = DONE => FullSchedule \subseteq published

\* C16: what such a run does publish
C16_PublishedSchedule ==
    stage = DONE =>
       published \cap (ActiveStages \X (0..100)) =
          FullSchedule \ {<<RECONSTRUCTING, 75>>, <<UNDISTORTING, 100>>}

\* C17: the result field is assigned at most once: a Result that is present
\* is never replaced or changed.  (The except block assigns a second Result
\* when on_complete, or the Done update's on_progress, raises.)
C17_ResultAssignedOnce ==
    [][result.present => result' = result]_vars

\* C17: the result is absent until a terminal stage is published.  (Both
\* assignments of the try block precede the Error and the Done update.)
C17_AbsentUntilTerminal ==
    result.present => stage \in Terminal

\* C17: a published Result is either a success with the sparse path and no
\* error, or a failure with an error message
C17_ResultWellFormed ==
    result.present =>
       IF result.success THEN result.sparse_path # None /\ result.error = None
                         ELSE result.error # None

\* C18: is_running() is true exactly in the four active stages: it is false
\* for Idle, also while the spawned worker has not published anything yet,
\* and false for Done, Error and Cancelled.
C18_RunningIffActiveStage ==
    /\ is_running <=> StageRank(stage) \in 1..4
    /\ stage \in {IDLE} \cup Terminal => ~is_running
    /\ \A w \in Threads : pc[w] = "L110" => stage = IDLE /\ ~is_running

\* C18 witness: the worker is inside undistort_images, the stage is
\* Undistorting and is_running() is true
C18_RunningDuringUndistort ==
    \E w \in Threads :
       Executing(w, "undistort_images") /\ stage = UNDISTORTING /\ is_running

\* The stage function call in front of each call site
PreviousSite == [L123 |-> "L115", L131 |-> "L123", L146 |-> "L131"]

\* C19: the worker calls every stage function at most once; a stage function
\* that has been called was called after its predecessor was called once and
\* had returned without raising; undistort_images is called only with a
\* successful Result returned by reconstruct.
C19_StagesInOrderOnce ==
    /\ \A f \in StageFunctions : calls[f] <= 1
    /\ \A l \in DOMAIN PreviousSite : calls[StageSite[l].fn] > 0 =>
          /\ calls[StageSite[PreviousSite[l]].fn] = 1
          /\ raised \cap ErrorsOf(PreviousSite[l]) = {}
          /\ \A w \in Threads : ~Executing(w, StageSite[PreviousSite[l]].fn)
    /\ calls["undistort_images"] > 0 => thread # None /\ res[thread].success

\* C19 witness: the worker is inside undistort_images, after one call of each
\* of the three earlier stage functions and a successful reconstruct
C19_UndistortAfterSuccess ==
    \E w \in Threads :
       /\ Executing(w, "undistort_images")
       /\ res[w].success
       /\ \A f \in StageFunctions : calls[f] = 1

\* C20: a reader that has read stage Done and then the result has a
\* successful Result; one that has read stage Error and then the result has a
\* failed Result, never an absent one; and whenever the result is present the
\* stage is terminal, so that reading the result and the stage next never
\* gives a Result together with an active stage.  (The reads are atomic, so
\* the last part is a property of the state the two reads are made in.)
C20_StageResultConsistent ==
    /\ (rdStage = DONE /\ rdResult # None) => rdResult = "success"
    /\ (rdStage = ERROR /\ rdResult # None) => rdResult = "failed"
    /\ result.present => ~is_running

\* C20: a reader that has read stage Done and then the result never finds
\* it absent: the success path assigns the result before the Done update
C20_DoneThenResultPresent ==
    (rdStage = DONE /\ rdResult # None) => rdResult # "absent"

\* The order in which run_pipeline calls the stage functions
SyncOrder == <<"extract_features", "match_features", "reconstruct">>

\* C22: run_pipeline calls extract_features, match_features and reconstruct in
\* that order on the calling thread and stops at the first one that raises;
\* no exception of a stage function reaches its caller: it then returns a
\* failed Result whose error is the exception's message, and otherwise it
\* returns the Result reconstruct returned.
C22_SyncPipelineContainsStageErrors ==
    /\ rp_calls = SubSeq(SyncOrder, 1, Len(rp_calls))
    /\ thread = None
    /\ rp_caught # NothingCaught => rp_calls[Len(rp_calls)] = rp_caught.in
    /\ rp_pc = "raised" => rp_caught = NothingCaught /\ rp_calls = <<>>
    /\ rp_pc = "returned" =>
          IF rp_caught # NothingCaught
            THEN rp_ret = FailedResult(rp_caught.msg)
            ELSE rp_calls = SyncOrder /\ rp_ret = rp_rec /\ rp_rec.present

\* C22 witness: match_features raised on an unknown match type after
\* extract_features returned, reconstruct was not called and run_pipeline
\* returned the failed Result with that message
C22_MatchErrorReturned ==
    /\ rp_pc = "returned"
    /\ rp_calls = <<"extract_features", "match_features">>
    /\ rp_caught.msg = MatchError
    /\ rp_ret = FailedResult(MatchError)

\* C22: an exception of the configuration's construction, made before the try
\* block, does reach the caller: a reachable state
C22_ConfigErrorPropagates ==
    rp_pc = "raised" /\ rp_exc = ConfigError /\ rp_calls = <<>>

\* The worker thread of job j is running: started and not yet out of _run
Live(j) == jpc[j] \notin {"unborn", "finished"}

\* C21: at most one job started by the panel is live at any time.  (The stage
\* of a started job is still Idle until its worker's first _update, and it is
\* Error before on_error is delivered: is_running() is false in both windows
\* and the panel starts the next job.)
C21_AtMostOneLiveJob ==
    Cardinality({j \in Jobs : Live(j)}) <= 1

\* C21: when draw offers Start Reconstruction, the job started before has no
\* worker running and no callback undelivered
C21_StartOfferedOnlyWhenQuiet ==
    (dpc = "L66" /\ panel_job # 0) => ~Live(panel_job)

\* C21: last_result and _pending_import are written only by callbacks of the
\* job the panel holds at the time
C21_WrittenByCurrentJob ==
    \A w \in wrote : w[1] = w[2]

====
